---- MODULE Spec2Model ----
(***************************************************************************)
(* jsonrpc-client-core (core/src/lib.rs): the lazy RpcRequest future, its  *)
(* inner pending request, call_method and serialize_request, driven        *)
(* against an arbitrary Transport.                                         *)
(***************************************************************************)
EXTENDS Integers, Sequences, FiniteSets, TLC

\* Bounds of the model.
MaxCalls == 2       \* call_method invocations in one behaviour
MaxDrives == 3      \* polls of RpcRequest values in one behaviour

VARIABLES
    reqs,       \* the RpcRequest values returned by call_method, in call order
    owner,      \* per request: "lazy" (held by the caller), "blocked" (inside call()), "returned" (consumed by call())
    allocLog,   \* the values returned by transport.get_next_id(), in order
    sendLog,    \* the invocations of transport.send: [call, bytes]
    args,       \* per call: what call_method was given [nid, method, params]
    ops,        \* per call: the calls call_method made, in order, among get_next_id, serialize_request, send
    nd,         \* per request: how many times it has been polled
    nterm,      \* per request: how many of its polls have returned a terminal value (Ready or Err)
    last,       \* the latest poll: which request, what the transport future answered, what came back
    idPolicy    \* what response::parse does with an id that is not the expected one

vars == <<reqs, owner, allocLog, sendLog, args, ops, nd, nterm, last, idPolicy>>

----------------------------------------------------------------------------
\* serde_json::Value

JNull == [t |-> "null"]
JNum(n) == [t |-> "num", n |-> n]
JStr(s) == [t |-> "str", s |-> s]
JArr(a) == [t |-> "arr", a |-> a]
\* an object is its members in order, each [k |-> key, v |-> value]
JObj(o) == [t |-> "obj", o |-> o]
Member(k, v) == [k |-> k, v |-> v]

\* Vec<u8> holding JSON text, as its tokens: punctuation, and scalars
P(c) == [p |-> c]

RECURSIVE to_vec_value(_)
RECURSIVE to_vec_elems(_)
RECURSIVE to_vec_members(_)
to_vec_value(v) ==
    CASE v.t = "arr" -> <<P("[")>> \o to_vec_elems(v.a) \o <<P("]")>>
      [] v.t = "obj" -> <<P("{")>> \o to_vec_members(v.o) \o <<P("}")>>
      [] OTHER -> <<v>>
to_vec_elems(a) ==
    IF a = <<>> THEN <<>>
    ELSE to_vec_value(Head(a))
            \o (IF Len(a) > 1 THEN <<P(",")>> ELSE <<>>)
            \o to_vec_elems(Tail(a))
to_vec_members(o) ==
    IF o = <<>> THEN <<>>
    ELSE <<JStr(Head(o).k), P(":")>> \o to_vec_value(Head(o).v)
            \o (IF Len(o) > 1 THEN <<P(",")>> ELSE <<>>)
            \o to_vec_members(Tail(o))

\* serde_json::from_slice::<Value>: recursive descent over the tokens
NoParse == [ok |-> FALSE]
Parsed(v, rest) == [ok |-> TRUE, v |-> v, rest |-> rest]
IsP(tok, c) == "p" \in DOMAIN tok /\ tok.p = c

RECURSIVE parse_value(_)
RECURSIVE parse_elems(_, _)
RECURSIVE parse_members(_, _)
parse_value(ts) ==
    IF ts = <<>> THEN NoParse
    ELSE LET h == Head(ts) IN
         IF IsP(h, "[") THEN
            IF Len(ts) > 1 /\ IsP(ts[2], "]")
            THEN Parsed(JArr(<<>>), Tail(Tail(ts)))
            ELSE parse_elems(Tail(ts), <<>>)
         ELSE IF IsP(h, "{") THEN
            IF Len(ts) > 1 /\ IsP(ts[2], "}")
            THEN Parsed(JObj(<<>>), Tail(Tail(ts)))
            ELSE parse_members(Tail(ts), <<>>)
         ELSE IF "p" \in DOMAIN h THEN NoParse
         ELSE Parsed(h, Tail(ts))
parse_elems(ts, acc) ==
    LET r == parse_value(ts) IN
    IF ~r.ok \/ r.rest = <<>> THEN NoParse
    ELSE IF IsP(Head(r.rest), ",") THEN parse_elems(Tail(r.rest), Append(acc, r.v))
    ELSE IF IsP(Head(r.rest), "]") THEN Parsed(JArr(Append(acc, r.v)), Tail(r.rest))
    ELSE NoParse
parse_members(ts, acc) ==
    IF Len(ts) < 3 \/ "p" \in DOMAIN ts[1] \/ ts[1].t # "str" \/ ~IsP(ts[2], ":")
    THEN NoParse
    ELSE LET r == parse_value(Tail(Tail(ts))) IN
         IF ~r.ok \/ r.rest = <<>> THEN NoParse
         ELSE LET m == Append(acc, Member(ts[1].s, r.v)) IN
              IF IsP(Head(r.rest), ",") THEN parse_members(Tail(r.rest), m)
              ELSE IF IsP(Head(r.rest), "}") THEN Parsed(JObj(m), Tail(r.rest))
              ELSE NoParse

from_slice(bytes) ==
    LET r == parse_value(bytes) IN
    IF r.ok /\ r.rest = <<>> THEN [ok |-> TRUE, v |-> r.v] ELSE [ok |-> FALSE]

\* member lookup in an object
HasKey(obj, k) == \E j \in 1..Len(obj.o) : obj.o[j].k = k
Get(obj, k) == obj.o[CHOOSE j \in 1..Len(obj.o) : obj.o[j].k = k].v

----------------------------------------------------------------------------
\* Option, futures::Poll, and the errors of error_chain!

None == [some |-> FALSE]
Some(x) == [some |-> TRUE, val |-> x]

NotReady == [r |-> "NotReady"]
Ready(x) == [r |-> "Ready", item |-> x]
Err(e) == [r |-> "Err", error |-> e]
\* a panic unwinding out of poll; by: whose code panicked
Panic(by) == [r |-> "Panic", by |-> by]
IsTerminal(res) == res.r \in {"Ready", "Err"}

\* chain_err(|| kind): an Error of that kind wrapping the cause
chain_err(kind, cause) == [kind |-> kind, cause |-> cause]
ResponseError(msg) == [kind |-> "ResponseError", msg |-> msg]
JsonRpcError(error) == [kind |-> "JsonRpcError", error |-> error]

\* jsonrpc_core::types::Id::Num and Params, and how they serialize
IdNum(n) == JNum(n)
ParamsArray(vec) == [variant |-> "Array", vec |-> vec]
ParamsMap(obj) == [variant |-> "Map", map |-> obj]
ParamsValue(p) == IF p.variant = "Array" THEN JArr(p.vec) ELSE JObj(p.map)

----------------------------------------------------------------------------
\* serialize_request

\* an argument P: serde::Serialize either serializes to a Value or fails
Ser(v) == [ser |-> "ok", val |-> v]
Unser(cause) == [ser |-> "err", cause |-> cause]
to_value(params) ==
    IF params.ser = "ok" THEN [ok |-> TRUE, v |-> params.val]
    ELSE [ok |-> FALSE, err |-> params.cause]

\* serialized_params without its Null arm: null falls to the scalar arm
serialized_params_no_null_arm(value) ==
    CASE value.t = "arr" -> Some(ParamsArray(value.a))
      [] value.t = "obj" -> Some(ParamsMap(value.o))
      [] OTHER -> Some(ParamsArray(<<value>>))

serialized_params(value) ==
    CASE value.t = "null" -> None
      [] value.t = "arr" -> Some(ParamsArray(value.a))
      [] value.t = "obj" -> Some(ParamsMap(value.o))
      [] OTHER -> Some(ParamsArray(<<value>>))

MethodCall(id, method, params) ==
    [jsonrpc |-> Some("2.0"), method |-> method, params |-> params, id |-> id]

\* serde_json::to_vec(&method_call): the fields in declaration order, an absent
\* params left out
to_vec(method_call) ==
    to_vec_value(JObj(
        <<Member("jsonrpc", JStr(method_call.jsonrpc.val)),
          Member("method", JStr(method_call.method))>>
        \o (IF method_call.params.some
            THEN <<Member("params", ParamsValue(method_call.params.val))>>
            ELSE <<>>)
        \o <<Member("id", method_call.id)>>))

serialize_request(id, method, params) ==
    LET value == to_value(params) IN
    IF ~value.ok THEN [ok |-> FALSE, err |-> value.err]
    ELSE [ok |-> TRUE,
          bytes |-> to_vec(MethodCall(id, method, serialized_params(value.v)))]

----------------------------------------------------------------------------
\* RpcRequest, InnerRpcRequest and the transport's future

\* Transport::Future as the request sees it: the operation is in flight, has
\* resolved (the next poll hands over its bytes or its error), or has handed over
InFlight == [st |-> "InFlight"]
Resolved == [st |-> "Resolved"]
Done == [st |-> "Done"]

\* what transport_future.poll() answers
TNone == [tr |-> "None"]
TNotReady == [tr |-> "NotReady"]
TReady(bytes) == [tr |-> "Ready", bytes |-> bytes]
TErr(cause) == [tr |-> "Err", cause |-> cause]
TPanic == [tr |-> "Panic"]

InnerRpcRequest_new(transport_future, id, marker) ==
    [transport_future |-> transport_future, id |-> id, marker |-> marker]
RpcRequestOk(inner) == [tag |-> "Ok", inner |-> inner]
RpcRequestErr(error_option) == [tag |-> "Err", error_option |-> error_option]

\* call_method handing the transport an empty buffer when serialization failed
call_method_sends_on_failure(nid, method, params, marker) ==
    LET id == IdNum(nid)
        request_serialization_result == serialize_request(id, method, params)
    IN  IF ~request_serialization_result.ok
        THEN [request |-> RpcRequestErr(Some(
                    chain_err("SerializeError", request_serialization_result.err))),
              sent |-> << <<>> >>,
              ops |-> <<"get_next_id", "serialize_request", "send">>]
        ELSE [request |-> RpcRequestOk(InnerRpcRequest_new(InFlight, id, marker)),
              sent |-> <<request_serialization_result.bytes>>,
              ops |-> <<"get_next_id", "serialize_request", "send">>]

\* call_method handing the request to the transport a second time
call_method_sends_twice(nid, method, params, marker) ==
    LET id == IdNum(nid)
        request_serialization_result == serialize_request(id, method, params)
    IN  IF ~request_serialization_result.ok
        THEN [request |-> RpcRequestErr(Some(
                    chain_err("SerializeError", request_serialization_result.err))),
              sent |-> <<>>,
              ops |-> <<"get_next_id", "serialize_request">>]
        ELSE [request |-> RpcRequestOk(InnerRpcRequest_new(InFlight, id, marker)),
              sent |-> <<request_serialization_result.bytes,
                         request_serialization_result.bytes>>,
              ops |-> <<"get_next_id", "serialize_request", "send", "send">>]

\* call_method numbering the requests itself, every one with id 1
call_method_own_id(nid, method, params, marker) ==
    LET id == IdNum(1)
        request_serialization_result == serialize_request(id, method, params)
    IN  IF ~request_serialization_result.ok
        THEN [request |-> RpcRequestErr(Some(
                    chain_err("SerializeError", request_serialization_result.err))),
              sent |-> <<>>,
              ops |-> <<"get_next_id", "serialize_request">>]
        ELSE [request |-> RpcRequestOk(InnerRpcRequest_new(InFlight, id, marker)),
              sent |-> <<request_serialization_result.bytes>>,
              ops |-> <<"get_next_id", "serialize_request", "send">>]

\* call_method keeping another id in the request than the one it serialized
call_method_stores_other_id(nid, method, params, marker) ==
    LET id == IdNum(nid)
        request_serialization_result == serialize_request(id, method, params)
    IN  IF ~request_serialization_result.ok
        THEN [request |-> RpcRequestErr(Some(
                    chain_err("SerializeError", request_serialization_result.err))),
              sent |-> <<>>,
              ops |-> <<"get_next_id", "serialize_request">>]
        ELSE [request |-> RpcRequestOk(InnerRpcRequest_new(InFlight, IdNum(nid + 1), marker)),
              sent |-> <<request_serialization_result.bytes>>,
              ops |-> <<"get_next_id", "serialize_request", "send">>]

\* call_method serializing before it asks the transport for an id, and asking only
\* when the arguments serialized
call_method_validates_first(nid, method, params, marker) ==
    LET id == IdNum(nid)
        request_serialization_result == serialize_request(id, method, params)
    IN  IF ~request_serialization_result.ok
        THEN [request |-> RpcRequestErr(Some(
                    chain_err("SerializeError", request_serialization_result.err))),
              sent |-> <<>>,
              ops |-> <<"serialize_request">>]
        ELSE [request |-> RpcRequestOk(InnerRpcRequest_new(InFlight, id, marker)),
              sent |-> <<request_serialization_result.bytes>>,
              ops |-> <<"serialize_request", "get_next_id", "send">>]

\* call_method, with nid the value transport.get_next_id() returned: the request it
\* returns, the byte buffers it handed to transport.send, and the calls it made
call_method(nid, method, params, marker) ==
    LET id == IdNum(nid)
        request_serialization_result == serialize_request(id, method, params)
    IN  IF ~request_serialization_result.ok
        THEN [request |-> RpcRequestErr(Some(
                    chain_err("SerializeError", request_serialization_result.err))),
              sent |-> <<>>,
              ops |-> <<"get_next_id", "serialize_request">>]
        ELSE [request |-> RpcRequestOk(InnerRpcRequest_new(InFlight, id, marker)),
              sent |-> <<request_serialization_result.bytes>>,
              ops |-> <<"get_next_id", "serialize_request", "send">>]

----------------------------------------------------------------------------
\* response::parse (core/src/response.rs), from the specification's section 4.5

IsErrorObject(v) ==
    /\ v.t = "obj"
    /\ HasKey(v, "code") /\ Get(v, "code").t = "num"
    /\ HasKey(v, "message") /\ Get(v, "message").t = "str"
ErrorObject(v) ==
    [code |-> Get(v, "code").n, message |-> Get(v, "message").s,
     data |-> IF HasKey(v, "data") THEN Some(Get(v, "data")) ELSE None]

\* serde_json::from_value::<T>: the target type is the request's marker
from_value(v, marker) ==
    IF marker = "Value" \/ v.t = "str" THEN [ok |-> TRUE, v |-> v] ELSE [ok |-> FALSE]

\* policy: "reject" fails a response whose id is not expected_id, "trust" does not
\* look at the id (the specification leaves the choice open)
parse(response_raw, expected_id, marker, policy) ==
    LET d == from_slice(response_raw) IN
    IF ~d.ok THEN Err(ResponseError("not valid JSON"))
    ELSE IF d.v.t # "obj" THEN Err(ResponseError("not a response envelope"))
    ELSE IF HasKey(d.v, "result") = HasKey(d.v, "error")
         THEN Err(ResponseError("not exactly one of result and error"))
    ELSE IF policy = "reject"
            /\ (~HasKey(d.v, "id") \/ Get(d.v, "id") # expected_id)
         THEN Err(ResponseError("response id not equal to request id"))
    ELSE IF HasKey(d.v, "error")
         THEN IF IsErrorObject(Get(d.v, "error"))
              THEN Err(JsonRpcError(ErrorObject(Get(d.v, "error"))))
              ELSE Err(ResponseError("malformed error object"))
    ELSE LET t == from_value(Get(d.v, "result"), marker) IN
         IF t.ok THEN Ready(t.v)
         ELSE Err(ResponseError("result not valid for the target type"))

----------------------------------------------------------------------------
\* poll

\* transport_future.poll(): the answers a transport future may give, each with the
\* future afterwards. Polling a future that has already completed is outside the
\* Future contract: it may panic, stay not ready for ever, or answer anything.
FuturePoll(f, responses, stale) ==
    CASE f.st = "InFlight" -> {[tp |-> TNotReady, next |-> f]}
      [] f.st = "Resolved" ->
            {[tp |-> a, next |-> Done] :
                a \in {TErr("Internal transport error")} \cup {TReady(b) : b \in responses}}
      [] OTHER ->
            {[tp |-> a, next |-> Done] :
                a \in {TPanic, TNotReady, TErr("Internal transport error")}
                        \cup {TReady(b) : b \in stale}}

\* InnerRpcRequest::poll taking a transport error for a malformed response
InnerRpcRequest_poll_wrong_kind(self, fp, policy) ==
    LET after == [self EXCEPT !.transport_future = fp.next] IN
    CASE fp.tp.tr = "NotReady" ->
            [res |-> NotReady, parsed |-> <<>>, self |-> after]
      [] fp.tp.tr = "Err" ->
            [res |-> Err(ResponseError(fp.tp.cause)), parsed |-> <<>>, self |-> after]
      [] fp.tp.tr = "Panic" ->
            [res |-> Panic("transport"), parsed |-> <<>>, self |-> after]
      [] OTHER ->
            [res |-> parse(fp.tp.bytes, self.id, self.marker, policy),
             parsed |-> <<[bytes |-> fp.tp.bytes, id |-> self.id]>>,
             self |-> after]

\* InnerRpcRequest::poll without try_ready!: a future that is not ready is parsed
\* as if it had answered with no bytes
InnerRpcRequest_poll_no_try_ready(self, fp, policy) ==
    LET after == [self EXCEPT !.transport_future = fp.next] IN
    CASE fp.tp.tr = "NotReady" ->
            [res |-> parse(<<>>, self.id, self.marker, policy),
             parsed |-> <<[bytes |-> <<>>, id |-> self.id]>>, self |-> after]
      [] fp.tp.tr = "Err" ->
            [res |-> Err(chain_err("TransportError", fp.tp.cause)),
             parsed |-> <<>>, self |-> after]
      [] fp.tp.tr = "Panic" ->
            [res |-> Panic("transport"), parsed |-> <<>>, self |-> after]
      [] OTHER ->
            [res |-> parse(fp.tp.bytes, self.id, self.marker, policy),
             parsed |-> <<[bytes |-> fp.tp.bytes, id |-> self.id]>>,
             self |-> after]

\* InnerRpcRequest::poll handing the parser Id::Null instead of self.id
InnerRpcRequest_poll_null_id(self, fp, policy) ==
    LET after == [self EXCEPT !.transport_future = fp.next] IN
    CASE fp.tp.tr = "NotReady" ->
            [res |-> NotReady, parsed |-> <<>>, self |-> after]
      [] fp.tp.tr = "Err" ->
            [res |-> Err(chain_err("TransportError", fp.tp.cause)),
             parsed |-> <<>>, self |-> after]
      [] fp.tp.tr = "Panic" ->
            [res |-> Panic("transport"), parsed |-> <<>>, self |-> after]
      [] OTHER ->
            [res |-> parse(fp.tp.bytes, JNull, self.marker, policy),
             parsed |-> <<[bytes |-> fp.tp.bytes, id |-> JNull]>>,
             self |-> after]

\* InnerRpcRequest::poll with chain_err(|| TransportError) applied to the parser's
\* result as well
InnerRpcRequest_poll_chains_parse(self, fp, policy) ==
    LET after == [self EXCEPT !.transport_future = fp.next] IN
    CASE fp.tp.tr = "NotReady" ->
            [res |-> NotReady, parsed |-> <<>>, self |-> after]
      [] fp.tp.tr = "Err" ->
            [res |-> Err(chain_err("TransportError", fp.tp.cause)),
             parsed |-> <<>>, self |-> after]
      [] fp.tp.tr = "Panic" ->
            [res |-> Panic("transport"), parsed |-> <<>>, self |-> after]
      [] OTHER ->
            LET r == parse(fp.tp.bytes, self.id, self.marker, policy) IN
            [res |-> IF r.r = "Err"
                     THEN Err(chain_err("TransportError", r.error.kind)) ELSE r,
             parsed |-> <<[bytes |-> fp.tp.bytes, id |-> self.id]>>,
             self |-> after]

\* InnerRpcRequest::poll keeping the bytes for a later poll instead of parsing them
InnerRpcRequest_poll_defers_parse(self, fp, policy) ==
    LET after == [self EXCEPT !.transport_future = fp.next] IN
    CASE fp.tp.tr = "NotReady" ->
            [res |-> NotReady, parsed |-> <<>>, self |-> after]
      [] fp.tp.tr = "Err" ->
            [res |-> Err(chain_err("TransportError", fp.tp.cause)),
             parsed |-> <<>>, self |-> after]
      [] fp.tp.tr = "Panic" ->
            [res |-> Panic("transport"), parsed |-> <<>>, self |-> after]
      [] OTHER ->
            [res |-> NotReady, parsed |-> <<>>, self |-> after]

\* InnerRpcRequest::poll, fp being what transport_future.poll() did: the value
\* returned, the calls made to response::parse, and self afterwards
InnerRpcRequest_poll(self, fp, policy) ==
    LET after == [self EXCEPT !.transport_future = fp.next] IN
    CASE fp.tp.tr = "NotReady" ->
            [res |-> NotReady, parsed |-> <<>>, self |-> after]
      [] fp.tp.tr = "Err" ->
            [res |-> Err(chain_err("TransportError", fp.tp.cause)),
             parsed |-> <<>>, self |-> after]
      [] fp.tp.tr = "Panic" ->
            [res |-> Panic("transport"), parsed |-> <<>>, self |-> after]
      [] OTHER ->
            [res |-> parse(fp.tp.bytes, self.id, self.marker, policy),
             parsed |-> <<[bytes |-> fp.tp.bytes, id |-> self.id]>>,
             self |-> after]

\* RpcRequest::poll cloning the stored error instead of taking it
RpcRequest_poll_keeps_error(self, fp, policy) ==
    IF self.tag = "Ok"
    THEN LET p == InnerRpcRequest_poll(self.inner, fp, policy) IN
         [res |-> p.res, parsed |-> p.parsed, self |-> [self EXCEPT !.inner = p.self]]
    ELSE IF self.error_option.some
         THEN [res |-> Err(self.error_option.val), parsed |-> <<>>, self |-> self]
         ELSE [res |-> Panic("core"), parsed |-> <<>>, self |-> self]

\* RpcRequest::poll
RpcRequest_poll(self, fp, policy) ==
    IF self.tag = "Ok"
    THEN LET p == InnerRpcRequest_poll(self.inner, fp, policy) IN
         [res |-> p.res, parsed |-> p.parsed, self |-> [self EXCEPT !.inner = p.self]]
    ELSE IF self.error_option.some
         THEN [res |-> Err(self.error_option.val), parsed |-> <<>>,
               self |-> [self EXCEPT !.error_option = None]]
         ELSE [res |-> Panic("core"), parsed |-> <<>>, self |-> self]

----------------------------------------------------------------------------
\* The inputs: what callers pass and what a transport may do

Ids == {1, 2}
Hello == Ser(JArr(<<JStr("Hello")>>))
Unserializable == Unser("key must be a string")
\* arguments of every serialized shape, for the calls of SpecCalls
ParamsAll ==
    {Ser(JNull), Ser(JNum(3)), Ser(JStr("Hello")), Hello, Ser(JArr(<<>>)),
     Ser(JArr(<<JNum(1), JArr(<<JNum(2)>>)>>)), Ser(JObj(<<>>)),
     Ser(JObj(<<Member("a", JNum(1)), Member("b", JArr(<<JNull>>))>>)),
     Unserializable}
\* the two outcomes of serialization, for the calls of Spec
ParamsDrive == {Hello, Unserializable}

Envelope(id, key, val) ==
    to_vec_value(JObj(<<Member("jsonrpc", JStr("2.0")), Member("id", id), Member(key, val)>>))
InvalidRequest ==
    JObj(<<Member("code", JNum(-32600)),
           Member("message", JStr("This was an invalid request")),
           Member("data", JArr(<<JNum(1), JNum(2), JNum(3)>>))>>)
MethodNotFound ==
    JObj(<<Member("code", JNum(-32601)), Member("message", JStr("Method not found"))>>)
\* the byte buffers a transport future may resolve to
Responses ==
    {Envelope(JNum(1), "result", JStr("pong")),
     Envelope(JNum(1), "result", JNum(42)),
     Envelope(JNum(1), "error", InvalidRequest),
     Envelope(JNum(2), "error", MethodNotFound),
     Envelope(JNum(1), "error", JStr("oops")),
     to_vec_value(JObj(<<Member("jsonrpc", JStr("2.0")), Member("id", JNum(1))>>)),
     <<P("{"), JStr("jsonrpc")>>}
\* what a completed transport future may still answer with
StaleResponses ==
    {Envelope(JNum(1), "result", JStr("pong")), Envelope(JNum(1), "error", InvalidRequest)}

----------------------------------------------------------------------------
\* The state machine

NoPoll == [i |-> 0, via |-> "none", k |-> 0, tp |-> TNone, res |-> NotReady,
           parsed |-> <<>>, was |-> RpcRequestErr(None)]

RECURSIVE Sum(_)
Sum(s) == IF s = <<>> THEN 0 ELSE Head(s) + Sum(Tail(s))
TotalDrives == Sum(nd)

Init ==
    /\ reqs = <<>> /\ owner = <<>> /\ allocLog = <<>> /\ sendLog = <<>>
    /\ args = <<>> /\ ops = <<>> /\ nd = <<>> /\ nterm = <<>>
    /\ last = NoPoll
    /\ idPolicy \in {"reject", "trust"}

\* a generated client method: transport.get_next_id() answers nid, then call_method
CallMethod(nid, method, params, marker) ==
    /\ Len(reqs) < MaxCalls
    /\ LET c == call_method(nid, method, params, marker)
           i == Len(reqs) + 1
       IN  /\ reqs' = Append(reqs, c.request)
           /\ sendLog' = sendLog \o [j \in 1..Len(c.sent) |-> [call |-> i, bytes |-> c.sent[j]]]
           /\ args' = Append(args, [nid |-> nid, method |-> method, params |-> params])
           /\ ops' = Append(ops, c.ops)
    /\ allocLog' = Append(allocLog, nid)
    /\ owner' = Append(owner, "lazy")
    /\ nd' = Append(nd, 0)
    /\ nterm' = Append(nterm, 0)
    /\ UNCHANGED <<last, idPolicy>>

\* the transport completes the operation behind request i
TransportResolve(i) ==
    /\ i \in 1..Len(reqs)
    /\ reqs[i].tag = "Ok"
    /\ reqs[i].inner.transport_future = InFlight
    /\ reqs' = [reqs EXCEPT ![i].inner.transport_future = Resolved]
    /\ UNCHANGED <<owner, allocLog, sendLog, args, ops, nd, nterm, last, idPolicy>>

\* wait() returning whatever its first poll returned
AfterWait_single_poll(res) == "returned"

\* wait(): parked while the future is not ready, gone once poll returned or panicked
AfterWait(res) == IF res = NotReady THEN "blocked" ELSE "returned"

\* one poll of request i, were the transport future one object shared by all the
\* requests of the transport
Drive_shared_future(i, via) ==
    \E fp \in (IF reqs[i].tag = "Ok"
               THEN FuturePoll(reqs[i].inner.transport_future, Responses, StaleResponses)
               ELSE {[tp |-> TNone, next |-> Done]}) :
        LET p == RpcRequest_poll(reqs[i], fp, idPolicy) IN
        /\ reqs' = [j \in 1..Len(reqs) |->
                        IF j = i THEN p.self
                        ELSE IF reqs[j].tag = "Ok" /\ reqs[i].tag = "Ok"
                             THEN [reqs[j] EXCEPT !.inner.transport_future = fp.next]
                             ELSE reqs[j]]
        /\ nd' = [nd EXCEPT ![i] = @ + 1]
        /\ nterm' = [nterm EXCEPT ![i] = IF IsTerminal(p.res) THEN @ + 1 ELSE @]
        /\ last' = [i |-> i, via |-> via, k |-> nd[i] + 1, tp |-> fp.tp, res |-> p.res,
                    parsed |-> p.parsed, was |-> reqs[i]]
        /\ owner' = [owner EXCEPT ![i] = IF via = "poll" THEN "lazy" ELSE AfterWait(p.res)]
        /\ UNCHANGED <<allocLog, sendLog, args, ops, idPolicy>>

\* one poll of request i, by an executor ("poll") or inside call() ("call")
Drive(i, via) ==
    \E fp \in (IF reqs[i].tag = "Ok"
               THEN FuturePoll(reqs[i].inner.transport_future, Responses, StaleResponses)
               ELSE {[tp |-> TNone, next |-> Done]}) :
        LET p == RpcRequest_poll(reqs[i], fp, idPolicy) IN
        /\ reqs' = [reqs EXCEPT ![i] = p.self]
        /\ nd' = [nd EXCEPT ![i] = @ + 1]
        /\ nterm' = [nterm EXCEPT ![i] = IF IsTerminal(p.res) THEN @ + 1 ELSE @]
        /\ last' = [i |-> i, via |-> via, k |-> nd[i] + 1, tp |-> fp.tp, res |-> p.res,
                    parsed |-> p.parsed, was |-> reqs[i]]
        /\ owner' = [owner EXCEPT ![i] = IF via = "poll" THEN "lazy" ELSE AfterWait(p.res)]
        /\ UNCHANGED <<allocLog, sendLog, args, ops, idPolicy>>

\* an executor (or the caller) polls request i
Poll(i) ==
    /\ i \in 1..Len(reqs)
    /\ owner[i] = "lazy"
    /\ TotalDrives < MaxDrives
    /\ Drive(i, "poll")

\* RpcRequest::call: self.wait() polls, and parks the thread when not ready
Call(i) ==
    /\ i \in 1..Len(reqs)
    /\ owner[i] = "lazy"
    /\ TotalDrives < MaxDrives
    /\ Drive(i, "call")

\* the transport future, now resolved, notifies the parked thread and wait() polls again
CallWake(i) ==
    /\ i \in 1..Len(reqs)
    /\ owner[i] = "blocked"
    /\ reqs[i].inner.transport_future = Resolved
    /\ Drive(i, "call")

Next ==
    \/ \E nid \in Ids, params \in ParamsDrive : CallMethod(nid, "ping", params, "String")
    \/ \E i \in 1..MaxCalls : TransportResolve(i)
    \/ \E i \in 1..MaxCalls : Poll(i)

\* requests driven by polling
Spec == Init /\ [][Next]_vars

\* requests driven by polling and by the blocking call(), on a transport whose
\* get_next_id always answers 1, like the transports of the tests
NextCall ==
    \/ \E params \in ParamsDrive : CallMethod(1, "ping", params, "String")
    \/ \E i \in 1..MaxCalls : TransportResolve(i)
    \/ \E i \in 1..MaxCalls : Poll(i)
    \/ \E i \in 1..MaxCalls : Call(i)
    \/ \E i \in 1..MaxCalls : CallWake(i)

SpecCall == Init /\ [][NextCall]_vars

\* an executor polls request i as the Future contract has it: not again once the
\* request returned a terminal value. Polls that come before the transport operation
\* completed are counted against MaxDrives, the poll that follows it is not.
PollLive(i) ==
    /\ i \in 1..Len(reqs)
    /\ owner[i] = "lazy"
    /\ nterm[i] = 0
    /\ (reqs[i].tag = "Ok" /\ reqs[i].inner.transport_future # Resolved
            => TotalDrives < MaxDrives)
    /\ Drive(i, "poll")

NextLive ==
    \/ \E params \in ParamsDrive : CallMethod(1, "ping", params, "String")
    \/ \E i \in 1..MaxCalls : TransportResolve(i)
    \/ \E i \in 1..MaxCalls : PollLive(i)

\* every transport operation completes in the end, and every request keeps being
\* driven until it has returned a terminal value
SpecLive ==
    /\ Init /\ [][NextLive]_vars
    /\ \A i \in 1..MaxCalls : WF_vars(TransportResolve(i))
    /\ \A i \in 1..MaxCalls : WF_vars(PollLive(i))

\* calls only, with arguments of every shape
NextCalls ==
    \E nid \in Ids, method \in {"ping", "fizz_buzz"}, params \in ParamsAll :
        CallMethod(nid, method, params, "Value")

SpecCalls == Init /\ [][NextCalls]_vars

----------------------------------------------------------------------------
\* Shorthands for the properties

\* the latest poll was a poll of a request call_method returned in the failed state
LastFailed == last.i # 0 /\ last.was.tag = "Err"
\* the latest poll was a poll of a request holding a transport future
LastInner == last.i # 0 /\ last.was.tag = "Ok"
\* ... whose transport future had not completed before that poll
LastPending == LastInner /\ last.was.inner.transport_future # Done
\* the request of the latest poll had already returned a terminal value before it
LastRedrive ==
    last.i # 0 /\ nterm[last.i] > (IF IsTerminal(last.res) THEN 1 ELSE 0)
\* the id call_method allocated for call i
AllocatedId(i) == IdNum(allocLog[i])
\* the calls whose bytes were handed to transport.send
SentCalls == {sendLog[j].call : j \in 1..Len(sendLog)}

----------------------------------------------------------------------------
\* C1: when the arguments of a call do not serialize, transport.send is not invoked
\* for that call, neither by call_method nor by any poll afterwards, and the first
\* poll of the returned request returns a SerializeError wrapping the cause.
C1_SerializeFailureNeverSends ==
    \A i \in 1..Len(reqs) :
        args[i].params.ser = "err" =>
            /\ i \notin SentCalls
            /\ (last.i = i /\ last.k = 1 =>
                    last.res = Err(chain_err("SerializeError", args[i].params.cause)))

\* a call whose arguments did not serialize has been polled, after a call that was sent
C1_Witness ==
    /\ last.i # 0 /\ last.k = 1
    /\ args[last.i].params.ser = "err"
    /\ last.res.r = "Err"
    /\ sendLog # <<>>

\* C2 (as claimed): transport.send is not invoked for a call before the request
\* call_method returned for it has been driven for the first time.
C2_NoSendBeforeFirstDrive ==
    \A i \in SentCalls : nd[i] > 0

\* C3: when the transport future of a pending request answers a poll with an error,
\* that poll returns a TransportError wrapping the error and makes no call to the
\* response parser.
C3_TransportErrorWrapped ==
    LastPending /\ last.tp.tr = "Err" =>
        /\ last.res = Err(chain_err("TransportError", last.tp.cause))
        /\ last.parsed = <<>>

C3_Witness ==
    LastPending /\ last.tp.tr = "Err" /\ last.res.r = "Err"

\* C4: a request created in the failed state returns its stored error from its first
\* poll, which empties it; every later poll panics in RpcRequest::poll itself, and
\* returns neither a value, nor an error, nor not-ready.
C4_FailedPolledTwiceIsFatal ==
    /\ \A i \in 1..Len(reqs) :
            reqs[i].tag = "Err" => (reqs[i].error_option.some <=> nd[i] = 0)
    /\ LastFailed =>
            IF last.k = 1
            THEN /\ last.was.error_option.some
                 /\ last.res = Err(last.was.error_option.val)
            ELSE last.res = Panic("core")

\* a failed request has been polled a second time
C4_Witness ==
    LastFailed /\ last.k = 2 /\ last.res.r = "Panic"

\* C5 (as claimed): a poll of a request that has already returned its terminal value
\* panics in the core's own code, whatever the request's state was and whatever its
\* transport future does when polled after completion.
C5_RedriveIsFatal ==
    LastRedrive => last.res = Panic("core")

\* C6: a poll of a pending request whose transport future answers not-ready returns
\* not-ready, leaves the request as it was (pending, same expected id) and makes no
\* call to the response parser; and no request returns a terminal value from a poll
\* that found its transport future still in flight.
C6_NotReadyStaysPending ==
    [][\A i \in 1..Len(reqs) :
          nd'[i] = nd[i] + 1 /\ reqs[i].tag = "Ok" =>
            /\ (nterm[i] = 0 /\ last'.tp = TNotReady =>
                    /\ last'.res = NotReady
                    /\ last'.parsed = <<>>
                    /\ reqs'[i] = reqs[i]
                    /\ nterm'[i] = 0)
            /\ (reqs[i].inner.transport_future = InFlight =>
                    /\ nterm'[i] = nterm[i]
                    /\ reqs'[i].inner.transport_future = InFlight)]_vars

\* a pending request was polled while its transport operation was in flight, and
\* answered not-ready
C6_Witness ==
    /\ LastPending /\ last.tp = TNotReady /\ last.res = NotReady
    /\ nterm[last.i] = 0
    /\ reqs[last.i] = last.was

\* C7: when the transport future of a pending request answers a poll with bytes, that
\* poll calls the response parser exactly once, with those bytes and the id that
\* get_next_id returned for this call, and returns what the parser returned.
C7_ParserOutcomePassedThrough ==
    LastPending /\ last.tp.tr = "Ready" =>
        /\ last.parsed = <<[bytes |-> last.tp.bytes, id |-> AllocatedId(last.i)]>>
        /\ last.res = parse(last.tp.bytes, AllocatedId(last.i),
                            last.was.inner.marker, idPolicy)
        /\ nterm[last.i] = 1

\* a request with id 2 resolved to the parser's value
C7_Witness ==
    /\ LastPending /\ last.tp.tr = "Ready"
    /\ allocLog[last.i] = 2
    /\ last.res = Ready(JStr("pong"))

\* C8: the id member of every request handed to transport.send is the number
\* get_next_id returned for that call; the requests sent carry the allocator's values
\* in the order of the calls, whatever those values are.
C8_IdIsAllocatorValue ==
    /\ Len(allocLog) = Len(reqs)
    /\ \A j \in 1..Len(sendLog) :
            LET d == from_slice(sendLog[j].bytes) IN
            /\ d.ok /\ d.v.t = "obj" /\ HasKey(d.v, "id")
            /\ Get(d.v, "id") = JNum(allocLog[sendLog[j].call])
    /\ \A j, k \in 1..Len(sendLog) : j < k => sendLog[j].call < sendLog[k].call
    /\ \A i \in 1..Len(reqs) :
            reqs[i].tag = "Ok" => i \in SentCalls /\ reqs[i].inner.id = JNum(allocLog[i])

\* two calls were sent with the ids 2 and then 1, as the allocator gave them
C8_Witness ==
    /\ allocLog = <<2, 1>>
    /\ Len(sendLog) = 2
    /\ Get(from_slice(sendLog[1].bytes).v, "id") = JNum(2)
    /\ Get(from_slice(sendLog[2].bytes).v, "id") = JNum(1)

\* C9: the params member of every request handed to transport.send follows from the
\* serialized argument: none for null, the array itself for an array, the object
\* itself for an object, a one-element array holding it for any other value; so a
\* params member, when present, is an array or an object.
C9_ParamsMappingRule ==
    \A j \in 1..Len(sendLog) :
        LET v == args[sendLog[j].call].params.val
            d == from_slice(sendLog[j].bytes)
        IN  /\ d.ok /\ d.v.t = "obj"
            /\ CASE v.t = "null" -> ~HasKey(d.v, "params")
                 [] v.t \in {"arr", "obj"} ->
                        HasKey(d.v, "params") /\ Get(d.v, "params") = v
                 [] OTHER ->
                        HasKey(d.v, "params") /\ Get(d.v, "params") = JArr(<<v>>)
            /\ (HasKey(d.v, "params") => Get(d.v, "params").t \in {"arr", "obj"})

\* a call with a null argument and a call with a scalar argument were sent
C9_Witness ==
    /\ Len(sendLog) = 2
    /\ args[sendLog[1].call].params = Ser(JNull)
    /\ args[sendLog[2].call].params = Ser(JNum(3))
    /\ Get(from_slice(sendLog[2].bytes).v, "params") = JArr(<<JNum(3)>>)

\* a response envelope with an error object and no result, whose id the parser accepts
IsErrorEnvelope(bytes, expected_id, policy) ==
    LET d == from_slice(bytes) IN
    /\ d.ok /\ d.v.t = "obj"
    /\ HasKey(d.v, "error") /\ ~HasKey(d.v, "result")
    /\ Get(d.v, "error").t = "obj"
    /\ HasKey(Get(d.v, "error"), "code") /\ Get(Get(d.v, "error"), "code").t = "num"
    /\ HasKey(Get(d.v, "error"), "message") /\ Get(Get(d.v, "error"), "message").t = "str"
    /\ HasKey(d.v, "id")
    /\ (policy = "reject" => Get(d.v, "id") = expected_id)

\* C10: when the transport future of a pending request answers with a well-formed
\* JSON-RPC error envelope, the poll returns a JsonRpcError whose code, message and
\* data are those of the envelope's error object.
C10_JsonRpcErrorVerbatim ==
    LastPending /\ last.tp.tr = "Ready"
        /\ IsErrorEnvelope(last.tp.bytes, AllocatedId(last.i), idPolicy) =>
            LET e == Get(from_slice(last.tp.bytes).v, "error") IN
            /\ last.res.r = "Err"
            /\ last.res.error.kind = "JsonRpcError"
            /\ last.res.error.error.code = Get(e, "code").n
            /\ last.res.error.error.message = Get(e, "message").s
            /\ last.res.error.error.data =
                    (IF HasKey(e, "data") THEN Some(Get(e, "data")) ELSE None)

\* the invalid-request envelope of the tests came back as a JsonRpcError
C10_Witness ==
    /\ LastPending /\ last.tp = TReady(Envelope(JNum(1), "error", InvalidRequest))
    /\ last.res.r = "Err"
    /\ last.res.error.kind = "JsonRpcError"
    /\ last.res.error.error.code = -32600
    /\ last.res.error.error.data = Some(JArr(<<JNum(1), JNum(2), JNum(3)>>))

\* how many times op occurs in a sequence of calls
Count(seq, op) == Cardinality({j \in 1..Len(seq) : seq[j] = op})
\* how many times transport.send was invoked for call i
Sends(log, i) == Cardinality({j \in 1..Len(log) : log[j].call = i})

\* C11: a call_method invocation calls get_next_id once, serialize_request once and
\* transport.send once if the arguments serialized and not at all otherwise; no
\* other step, and so no poll of any request whatever it returns, calls get_next_id
\* or send.
C11_OneIdOneSerializeOneSend ==
    [][/\ Len(reqs') = Len(reqs) + 1 =>
            LET i == Len(reqs')
                n == IF args'[i].params.ser = "ok" THEN 1 ELSE 0
            IN  /\ Len(allocLog') = Len(allocLog) + 1
                /\ Count(ops'[i], "get_next_id") = 1
                /\ Count(ops'[i], "serialize_request") = 1
                /\ Count(ops'[i], "send") = n
                /\ Sends(sendLog', i) = n
                /\ Len(sendLog') = Len(sendLog) + n
       /\ Len(reqs') = Len(reqs) =>
            /\ allocLog' = allocLog
            /\ sendLog' = sendLog
            /\ ops' = ops]_vars

\* one call was sent, its transport operation failed, and the request was polled again
C11_Witness ==
    /\ Len(reqs) = 1 /\ Len(sendLog) = 1 /\ Len(allocLog) = 1
    /\ last.i = 1 /\ last.k = 3
    /\ nterm[1] >= 1

\* what a poll of request req returns when its transport future answers tp
PollOutcome(req, tp, policy) == RpcRequest_poll(req, [tp |-> tp, next |-> Done], policy).res

\* C12: call() returns what polling the request to completion returns: each poll made
\* inside call() returns what a poll of the same request returns on the same answer of
\* the transport future; call() stays blocked while that is not-ready, and has
\* returned only when the request has yielded a terminal value.
C12_CallIsPollToCompletion ==
    [][\A i \in 1..Len(reqs) :
          nd'[i] = nd[i] + 1 /\ last'.via = "call" =>
            /\ last'.res = PollOutcome(reqs[i], last'.tp, idPolicy)
            /\ owner'[i] = (IF last'.res = NotReady THEN "blocked" ELSE "returned")
            /\ (owner'[i] = "returned" => nterm'[i] >= 1)
            /\ (reqs[i].tag = "Err" /\ nd[i] = 0 =>
                    last'.res = Err(chain_err("SerializeError", args[i].params.cause)))
            /\ (last'.tp.tr = "Err" =>
                    last'.res = Err(chain_err("TransportError", last'.tp.cause)))
            /\ (last'.tp.tr = "Ready" =>
                    last'.res = parse(last'.tp.bytes, AllocatedId(i),
                                      reqs[i].inner.marker, idPolicy))]_vars

\* call() found the transport operation in flight, blocked, and returned the value
\* once the operation had resolved
C12_Witness ==
    /\ last.i # 0 /\ last.via = "call" /\ last.k = 2
    /\ owner[last.i] = "returned"
    /\ nterm[last.i] = 1
    /\ last.res = Ready(JStr("pong"))

ErrorKinds == {"TransportError", "SerializeError", "ResponseError", "JsonRpcError"}

\* C13: an error returned by a poll has one of the four kinds, decided by where the
\* failure happened: SerializeError exactly when the arguments of the call did not
\* serialize, TransportError exactly when the transport future answered with an
\* error, ResponseError and JsonRpcError only when it answered with bytes and the
\* parser returned that error for them.
C13_ErrorKindByOrigin ==
    last.i # 0 /\ last.res.r = "Err" =>
        LET kind == last.res.error.kind IN
        /\ kind \in ErrorKinds
        /\ (kind = "SerializeError" <=> args[last.i].params.ser = "err")
        /\ (kind = "TransportError" <=> last.tp.tr = "Err")
        /\ (kind \in {"ResponseError", "JsonRpcError"} =>
                /\ last.tp.tr = "Ready"
                /\ last.res = parse(last.tp.bytes, AllocatedId(last.i),
                                    last.was.inner.marker, idPolicy))

\* a request whose transport resolved with malformed bytes ended with a
\* ResponseError, after a request with unserializable arguments was made
C13_Witness ==
    /\ last.i # 0 /\ last.res.r = "Err"
    /\ last.res.error.kind = "ResponseError"
    /\ \E i \in 1..Len(reqs) : args[i].params.ser = "err"

\* C14: a poll returns not-ready only when the transport future answered not-ready
\* in that poll; a request created in the failed state never returns not-ready; a
\* poll in which the transport future hands over bytes parses them and returns a
\* terminal value itself.
C14_SuspendsOnlyOnTransport ==
    last.i # 0 =>
        /\ (last.res = NotReady => LastInner /\ last.tp = TNotReady)
        /\ (LastFailed => last.res # NotReady)
        /\ (last.tp.tr = "Ready" => IsTerminal(last.res))

\* a request answered not-ready once and then, its bytes having arrived, resolved in
\* the very next poll
C14_Witness ==
    /\ LastPending /\ last.k = 2 /\ last.tp.tr = "Ready"
    /\ nterm[last.i] = 1 /\ IsTerminal(last.res)

\* C15: a poll of one request leaves every other request of the transport as it
\* was (its state, its polls so far, its outcomes so far, its driver), and what the
\* poll returns is decided by the polled request and the answer of its own transport
\* future alone: bytes are parsed against the id allocated for that very call,
\* whatever the order in which requests were polled and transport operations completed.
C15_RequestsAreIndependent ==
    [][\A i \in 1..Len(reqs) :
          nd'[i] = nd[i] + 1 =>
              /\ \A j \in (1..Len(reqs)) \ {i} :
                    /\ reqs'[j] = reqs[j] /\ nd'[j] = nd[j]
                    /\ nterm'[j] = nterm[j] /\ owner'[j] = owner[j]
              /\ last'.i = i
              /\ last'.res = PollOutcome(reqs[i], last'.tp, idPolicy)
              /\ (last'.tp.tr = "Ready" =>
                    last'.parsed = <<[bytes |-> last'.tp.bytes, id |-> AllocatedId(i)]>>)]_vars

\* two requests with different ids are outstanding, the second resolved first,
\* then the first resolved with the result in its own bytes
C15_Witness ==
    /\ Len(reqs) = 2 /\ reqs[1].tag = "Ok" /\ reqs[2].tag = "Ok"
    /\ allocLog = <<1, 2>>
    /\ nterm = <<1, 1>>
    /\ last.i = 1 /\ last.tp.tr = "Ready" /\ last.res = Ready(JStr("pong"))

\* the id member of the request bytes call i handed to transport.send
SentId(i) ==
    LET j == CHOOSE j \in 1..Len(sendLog) : sendLog[j].call = i
    IN  Get(from_slice(sendLog[j].bytes).v, "id")

\* C16: in every state, a request holding a transport future holds the id that its
\* call serialized into the bytes handed to transport.send, from its creation on and
\* through every poll; the id a poll passes to the parser is that id.
C16_ExpectedIdIsSentId ==
    /\ \A i \in 1..Len(reqs) :
          reqs[i].tag = "Ok" =>
              /\ Sends(sendLog, i) = 1
              /\ reqs[i].inner.id = SentId(i)
    /\ (last.i # 0 /\ last.parsed # <<>> =>
            /\ Len(last.parsed) = 1
            /\ last.parsed[1].id = SentId(last.i)
            /\ last.was.inner.id = SentId(last.i))

\* a request sent with id 2 was polled not-ready, then its bytes were parsed against 2
C16_Witness ==
    /\ last.i # 0 /\ last.k = 2 /\ last.parsed # <<>>
    /\ last.parsed[1].id = IdNum(2) /\ SentId(last.i) = IdNum(2)
    /\ reqs[last.i].inner.id = IdNum(2)

\* the position of the first op in seq, 0 when there is none
Pos(seq, op) ==
    IF Count(seq, op) = 0 THEN 0 ELSE CHOOSE j \in 1..Len(seq) : seq[j] = op /\ \A k \in 1..(j - 1) : seq[k] # op

\* C17: every call of call_method asks the transport for an id first, serializes
\* second, and sends, if it sends, third; a call whose arguments do not serialize has
\* still asked for its id and sends nothing; the id in each buffer handed to
\* transport.send is the one get_next_id returned to the same call.
C17_AllocateSerializeSend ==
    /\ Len(allocLog) = Len(reqs)
    /\ \A i \in 1..Len(reqs) :
          /\ Count(ops[i], "get_next_id") = 1
          /\ Count(ops[i], "serialize_request") = 1
          /\ Pos(ops[i], "get_next_id") < Pos(ops[i], "serialize_request")
          /\ (Count(ops[i], "send") > 0 =>
                Pos(ops[i], "serialize_request") < Pos(ops[i], "send"))
          /\ (args[i].params.ser = "err" =>
                /\ ops[i] = <<"get_next_id", "serialize_request">>
                /\ i \notin SentCalls)
    /\ \A j \in 1..Len(sendLog) :
          Get(from_slice(sendLog[j].bytes).v, "id") = IdNum(allocLog[sendLog[j].call])

\* the first call took id 1 and failed to serialize, the second took id 2 and was
\* sent: the ids sent on the transport skip 1
C17_Witness ==
    /\ allocLog = <<1, 2>>
    /\ args[1].params.ser = "err" /\ reqs[1].tag = "Err"
    /\ SentCalls = {2}
    /\ SentId(2) = IdNum(2)

\* C18: when every transport operation completes in the end and every request keeps
\* being driven until it has returned a terminal value, time and again every request
\* made so far has returned its terminal value (so each request made returns one in
\* the end), and none returns more than one; a request created in the failed state
\* has returned it once it has been driven at all, in its first and only drive.
C18_EventuallyOneOutcome ==
    /\ []<>(\A i \in 1..Len(reqs) : nterm[i] = 1)
    /\ [](\A i \in 1..Len(reqs) :
            /\ nterm[i] <= 1
            /\ (reqs[i].tag = "Err" /\ nd[i] >= 1 => nd[i] = 1 /\ nterm[i] = 1))

\* a request created in the failed state was driven once and is done, and a request
\* that was polled before its transport operation completed is done too
C18_Witness ==
    \E i, j \in 1..Len(reqs) :
        /\ reqs[i].tag = "Err" /\ nd[i] = 1 /\ nterm[i] = 1
        /\ reqs[j].tag = "Ok" /\ nd[j] >= 2 /\ nterm[j] = 1

====
